---- MODULE Spec2Model ----
(***************************************************************************)
(* Model of eastwood/sqs-sdk: QueueService (SQS wrapper with a polling     *)
(* timer) and StorageService (S3 wrapper with unique-key generation).      *)
(*                                                                         *)
(* JavaScript runs one macrotask (API call, transport callback, timer      *)
(* callback) to completion together with the promise continuations it      *)
(* schedules, so each action below is one macrotask plus its microtasks.   *)
(***************************************************************************)
EXTENDS Integers, Sequences, FiniteSets

(***************************************************************************)
(* JavaScript values.  Strings are sequences of pieces so that `a + b` and *)
(* template literals are concatenation (\o) and "" is the empty sequence.  *)
(***************************************************************************)
Undefined == [t |-> "undefined"]
Null == [t |-> "null"]
False == [t |-> "boolean", b |-> FALSE]
Str(pieces) == [t |-> "string", v |-> pieces]
Num(n) == [t |-> "number", n |-> n]
Arr(elems) == [t |-> "array", elems |-> elems]
Obj(props) == [t |-> "object", props |-> props]
Fn(name) == [t |-> "function", name |-> name]
ErrorObj(name, msg) == [t |-> "error", name |-> name, message |-> msg]

\* ToBoolean, as applied by `!x` and `if (x)`
Truthy(v) ==
  CASE v.t = "undefined" -> FALSE
    [] v.t = "null" -> FALSE
    [] v.t = "boolean" -> v.b
    [] v.t = "string" -> v.v # <<>>
    [] v.t = "number" -> v.n # 0
    [] OTHER -> TRUE

\* Members every ordinary object inherits from Object.prototype
ObjectPrototypeKeys ==
  {"constructor", "toString", "valueOf", "hasOwnProperty", "isPrototypeOf",
   "propertyIsEnumerable", "toLocaleString"}

\* `v.k` / `v[k]` throws a TypeError exactly when v is undefined or null
CanGet(v) == v.t \notin {"undefined", "null"}

TypeErrorOf(k) == ErrorObj("TypeError", <<"Cannot read property ", k>>)

\* `v[k]` for a v that CanGet: own property, then the prototype chain
Get(v, k) ==
  IF v.t = "object" /\ k \in DOMAIN v.props THEN v.props[k]
  ELSE IF k \in ObjectPrototypeKeys THEN Fn(k)
  ELSE Undefined

\* JSToString, as applied by template literals and string `+`
JSToString(v) ==
  CASE v.t = "undefined" -> <<"undefined">>
    [] v.t = "null" -> <<"null">>
    [] v.t = "boolean" -> IF v.b THEN <<"true">> ELSE <<"false">>
    [] v.t = "string" -> v.v
    [] v.t = "object" -> <<"[object Object]">>
    [] v.t = "function" -> <<"function ", v.name, "() { [native code] }">>
    [] v.t = "error" -> <<v.name, ": ">> \o v.message

\* JSON.stringify of a serialisable value: the JSON text, never the value
JSONStringify(v) ==
  CASE v.t = "string" -> Str(<<"\"">> \o v.v \o <<"\"">>)
    [] v.t = "null" -> Str(<<"null">>)
    [] v.t = "object" -> Str(<<"{">> \o
         (IF "one" \in DOMAIN v.props
             THEN <<"\"one\":\"">> \o v.props["one"].v \o <<"\"">> ELSE <<>>)
         \o <<"}">>)
    [] v.t = "array" -> Str(<<"[">> \o [i \in 1..Len(v.elems) |-> "elem"] \o <<"]">>)
    [] OTHER -> Undefined

(***************************************************************************)
(* Promises                                                                *)
(***************************************************************************)
NoPromise == [state |-> "none"]
Pending == [state |-> "pending"]
Resolved(v) == [state |-> "resolved", value |-> v]
Rejected(e) == [state |-> "rejected", value |-> e]

(***************************************************************************)
(* State: StorageService, QueueService, and the polling timers            *)
(***************************************************************************)
VARIABLES
  sCall,        \* the invocation under way: [name, prefix, attachments]
  uuidCalls,    \* number of uuid.v1() calls made so far
  frameKeys,    \* `key` of each getUniqueKey frame, outermost first
  headCalls,    \* params of every aws.headObject call issued
  headResults,  \* `err` delivered to each headObject callback
  headPending,  \* a headObject call is in flight
  putCalls,     \* params of every aws.putObject call issued
  putResults,   \* `err` delivered to each putObject callback
  putPending,   \* a putObject call is in flight
  sResult,      \* the promise returned to the caller
  consoleLog    \* errors written by console.log

storageVars == <<sCall, uuidCalls, frameKeys, headCalls, headResults,
                 headPending, putCalls, putResults, putPending, sResult,
                 consoleLog>>

VARIABLES
  svc,          \* "none" before `new QueueService(...)`, then "ok" or "threw"
  ctorArgs,     \* the four constructor arguments
  ctorError,    \* the Error thrown by the constructor, if any
  url,          \* this.url
  poll,         \* this.poll
  sqsOptions,   \* the options `new AWS.SQS` was created with
  qCall,        \* the invocation under way: [name, arg]
  qResult,      \* the promise returned to the caller
  deleteArgs,   \* argument of every this.deleteMessage call of the invocation
  sqsCalls,     \* every transport call issued by the invocation: [op, params]
  sqsResults,   \* (err, data) delivered to each transport callback
  sqsPending    \* a transport call of the invocation is in flight

queueVars == <<svc, ctorArgs, ctorError, url, poll, sqsOptions, qCall, qResult,
               deleteArgs, sqsCalls, sqsResults, sqsPending>>

VARIABLES
  timers,       \* every setInterval timer created: the startPolling argument,
                \* its interval (ms), the seconds elapsed since it was set or
                \* last fired (not counted past the moment it is due), and
                \* whether it is still set
  inflight,     \* the receives issued by timer callbacks and not yet answered:
                \* [timer, params, stopped]; stopped records that stopPolling
                \* was called while the receive was in flight
  last,         \* the latest step and what it did: the call a tick issued,
                \* the events a transport callback emitted
  lastApi       \* the latest of startPolling / stopPolling to be called

pollVars == <<timers, inflight, last, lastApi>>

vars == <<storageVars, queueVars, pollVars>>

(***************************************************************************)
(* Bounds                                                                  *)
(***************************************************************************)
MaxProbes == 3
MaxStarts == 2
MaxInFlight == 1
TimeStep == 10

(***************************************************************************)
(* StorageService state                                                    *)
(***************************************************************************)

Digits == <<"0", "1", "2", "3", "4", "5", "6", "7", "8", "9">>

\* uuid.v1(): the n-th call returns an identifier no other call returns
UuidV1(n) == Str(<<"uuid-", Digits[n + 1]>>)

Prefixes == {Str(<<"prefix">>), Str(<<"a@b.c/">>), Str(<<>>)}

Attachments == {Obj([one |-> Str(<<"foo">>)]), Str(<<"base64">>), Arr(<<>>)}

S3Error(code) == [t |-> "object", props |-> [code |-> Str(<<code>>)]]

\* what S3 may hand to a headObject callback: null (the object exists),
\* NotFound, or some other failure
HeadErrs == {Null, S3Error("NotFound"), S3Error("BadError"),
             S3Error("Forbidden"), Str(<<"ERR">>)}

PutErrs == {Null, Str(<<"exterminate...exterminate">>), S3Error("AccessDenied")}

\* const key = prefix + uuid.v1()
NewKey(prefix, n) == Str(JSToString(prefix) \o JSToString(UuidV1(n)))

\* ProbeDecision with the `err.code === 'NotFound'` test left out
ProbeDecisionAnyError(err) == IF Truthy(err) THEN "resolve" ELSE "retry"

\* the branch taken by the headObject callback
ProbeDecision(err) ==
  IF Truthy(err)
    THEN IF Get(err, "code") = Str(<<"NotFound">>) THEN "resolve" ELSE "reject"
    ELSE "retry"

\* putData built by putAttachment
PutData(key, attachments) == [Key |-> key, Body |-> JSONStringify(attachments)]

\* PutSettle with the `if (err) return reject(err)` line left out
PutSettleIgnoringErr(err, data) == Resolved(data.Key)

\* settlement of putObjectPromise(data) by the putObject callback
PutSettle(err, data) == IF Truthy(err) THEN Rejected(err) ELSE Resolved(data.Key)

\* first frame of getUniqueKey(prefix): a key and a probe for it
StartProbe(prefix) ==
  /\ uuidCalls' = uuidCalls + 1
  /\ frameKeys' = Append(frameKeys, NewKey(prefix, uuidCalls + 1))
  /\ headCalls' = Append(headCalls, [Key |-> NewKey(prefix, uuidCalls + 1)])
  /\ headPending' = TRUE

GetUniqueKey(prefix) ==
  /\ sCall.name = "none"
  /\ sCall' = [name |-> "getUniqueKey", prefix |-> prefix, attachments |-> Undefined]
  /\ StartProbe(prefix)
  /\ sResult' = Pending
  /\ UNCHANGED <<headResults, putCalls, putResults, putPending, consoleLog>>
  /\ UNCHANGED <<queueVars, pollVars>>

PutAttachment(prefix, attachments) ==
  /\ sCall.name = "none"
  /\ sCall' = [name |-> "putAttachment", prefix |-> prefix, attachments |-> attachments]
  /\ StartProbe(prefix)
  /\ sResult' = Pending
  /\ UNCHANGED <<headResults, putCalls, putResults, putPending, consoleLog>>
  /\ UNCHANGED <<queueVars, pollVars>>

\* the callback passed to aws.headObject, run for the innermost frame
HeadObjectCallback(err) ==
  /\ headPending
  /\ headResults' = Append(headResults, err)
  /\ LET key == frameKeys[Len(frameKeys)]
         d == ProbeDecision(err)
     IN CASE d = "retry" ->
               /\ uuidCalls < MaxProbes
               /\ StartProbe(sCall.prefix)
               /\ UNCHANGED <<sResult, putCalls, putPending, consoleLog>>
          [] d = "resolve" /\ sCall.name = "getUniqueKey" ->
               /\ sResult' = Resolved(key)
               /\ headPending' = FALSE
               /\ UNCHANGED <<uuidCalls, frameKeys, headCalls, putCalls,
                              putPending, consoleLog>>
          [] d = "resolve" /\ sCall.name = "putAttachment" ->
               /\ putCalls' = Append(putCalls, PutData(key, sCall.attachments))
               /\ putPending' = TRUE
               /\ headPending' = FALSE
               /\ UNCHANGED <<uuidCalls, frameKeys, headCalls, sResult, consoleLog>>
          [] d = "reject" /\ sCall.name = "getUniqueKey" ->
               /\ sResult' = Rejected(err)
               /\ headPending' = FALSE
               /\ UNCHANGED <<uuidCalls, frameKeys, headCalls, putCalls,
                              putPending, consoleLog>>
          [] d = "reject" /\ sCall.name = "putAttachment" ->
               /\ consoleLog' = Append(consoleLog, err)
               /\ sResult' = Rejected(err)
               /\ headPending' = FALSE
               /\ UNCHANGED <<uuidCalls, frameKeys, headCalls, putCalls, putPending>>
  /\ UNCHANGED <<sCall, putResults>>
  /\ UNCHANGED <<queueVars, pollVars>>

\* the callback passed to aws.putObject, then putAttachment's return / catch
PutObjectCallback(err) ==
  /\ putPending
  /\ putPending' = FALSE
  /\ putResults' = Append(putResults, err)
  /\ LET p == PutSettle(err, putCalls[Len(putCalls)])
     IN /\ sResult' = p
        /\ consoleLog' = IF p.state = "rejected"
                           THEN Append(consoleLog, p.value) ELSE consoleLog
  /\ UNCHANGED <<sCall, uuidCalls, frameKeys, headCalls, headResults,
                 headPending, putCalls>>
  /\ UNCHANGED <<queueVars, pollVars>>

StorageInit ==
  /\ sCall = [name |-> "none", prefix |-> Undefined, attachments |-> Undefined]
  /\ uuidCalls = 0
  /\ frameKeys = <<>>
  /\ headCalls = <<>>
  /\ headResults = <<>>
  /\ headPending = FALSE
  /\ putCalls = <<>>
  /\ putResults = <<>>
  /\ putPending = FALSE
  /\ sResult = NoPromise
  /\ consoleLog = <<>>

StorageNext ==
  \/ \E p \in Prefixes : GetUniqueKey(p)
  \/ \E p \in Prefixes, a \in Attachments : PutAttachment(p, a)
  \/ \E e \in HeadErrs : HeadObjectCallback(e)
  \/ \E e \in PutErrs : PutObjectCallback(e)


(***************************************************************************)
(* QueueService state                                                      *)
(***************************************************************************)

ENVIRONMENT_MAP ==
  Obj([kaos |-> Str(<<"384553929753">>), prod |-> Str(<<"966972755541">>)])

Host == <<"https://sqs.ap-southeast-2.amazonaws.com/">>

MandatoryError ==
  ErrorObj("Error", <<"All parameters are mandatory, please provide an appName, slice, environment and queueName">>)

ReceiptError == Str(<<"message input did not contain a receipt handle">>)

WaitTimeSeconds == 10

\* constructor arguments: absent, null, empty and non-empty strings
AppNames == {Undefined, Null, Str(<<>>), Str(<<"appName">>), Str(<<"alfred">>)}
Slices == {Undefined, Null, Str(<<>>), Str(<<"slice">>)}
Environments == {Undefined, Null, Str(<<>>), Str(<<"kaos">>), Str(<<"prod">>),
                 Str(<<"environment">>), Str(<<"constructor">>)}
QueueNames == {Undefined, Null, Str(<<>>), Str(<<"name">>), Str(<<"work-items">>)}

\* the property key a one-piece string names
KeyOf(s) == s.v[1]

\* MissingParameter with the `!queueName` test left out
MissingParameterButQueueName(appName, slice, environment, queueName) ==
  ~Truthy(appName) \/ ~Truthy(slice) \/ ~Truthy(environment)

\* the constructor's guard
MissingParameter(appName, slice, environment, queueName) ==
  ~Truthy(appName) \/ ~Truthy(slice) \/ ~Truthy(environment) \/ ~Truthy(queueName)

\* let account = ENVIRONMENT_MAP[environment]; if (!account) account = ENVIRONMENT_MAP.kaos
Account(environment) ==
  LET account == Get(ENVIRONMENT_MAP, KeyOf(environment))
  IN IF ~Truthy(account) THEN Get(ENVIRONMENT_MAP, "kaos") ELSE account

\* `${appName}-${slice}-${queueName}`
Uri(appName, slice, queueName) ==
  JSToString(appName) \o <<"-">> \o JSToString(slice) \o <<"-">> \o JSToString(queueName)

\* `https://sqs.ap-southeast-2.amazonaws.com/${account}/${uri}`
QueueUrl(appName, slice, environment, queueName) ==
  Str(Host \o JSToString(Account(environment)) \o <<"/">>
           \o Uri(appName, slice, queueName))

SqsOptions(queueUrl) ==
  [region |-> "ap-southeast-2", apiVersion |-> "2012-11-05",
   params |-> [QueueUrl |-> queueUrl]]

NoCall == [name |-> "none", arg |-> Undefined]

Constructor(appName, slice, environment, queueName) ==
  /\ svc = "none"
  /\ ctorArgs' = <<appName, slice, environment, queueName>>
  /\ IF MissingParameter(appName, slice, environment, queueName)
       THEN /\ svc' = "threw"
            /\ ctorError' = MandatoryError
            /\ UNCHANGED <<url, poll, sqsOptions>>
       ELSE /\ svc' = "ok"
            /\ url' = QueueUrl(appName, slice, environment, queueName)
            /\ poll' = Null
            /\ sqsOptions' = SqsOptions(QueueUrl(appName, slice, environment, queueName))
            /\ UNCHANGED ctorError
  /\ UNCHANGED <<qCall, qResult, deleteArgs, sqsCalls, sqsResults, sqsPending>>
  /\ UNCHANGED <<storageVars, pollVars>>

\* values a caller may pass as a message to send
Messages == {Str(<<"test">>), Obj([one |-> Str(<<"foo">>)]), Null}

\* values a caller may pass to deleteMessage
Deletables ==
  {Undefined, Null, Str(<<"test">>), Obj([body |-> Str(<<"test">>)]),
   Obj([body |-> Str(<<"test">>), ReceiptHandle |-> Num(123)]),
   Obj([ReceiptHandle |-> Str(<<"AQEB-1">>)]),
   Obj([ReceiptHandle |-> Str(<<>>)]),
   Obj([ReceiptHandle |-> Null])}

MaxCounts == {Undefined, Num(1), Num(10)}

\* what the transport may hand to a callback as err: false or null on
\* success (the tests use false), anything truthy on failure
SqsErrs == {False, Null, Str(<<"ERR">>), ErrorObj("Error", <<"Throttled">>)}

\* what the transport may hand to a callback as data.  The SDK always
\* passes a value on success, never undefined or null.
SqsData ==
  {Str(<<"some_data">>),
   Obj([MessageId |-> Str(<<"m-1">>)]),
   Obj([ReceiptHandle |-> Num(123)]),
   Obj([ReceiptHandle |-> Str(<<>>)]),
   Obj([Messages |-> Arr(<<Obj([ReceiptHandle |-> Str(<<"AQEB-1">>)])>>)]),
   Obj([Messages |-> Arr(<<>>)])}

\* a default parameter value applies when the argument is undefined
DefaultTo(arg, dflt) == IF arg = Undefined THEN dflt ELSE arg

SendParams(message) == [MessageBody |-> JSONStringify(message)]

ReceiveParams(maxNumberOfMessages) ==
  [MaxNumberOfMessages |-> maxNumberOfMessages, AttributeNames |-> <<"All">>,
   WaitTimeSeconds |-> WaitTimeSeconds]

\* Settle without the 'An error occurred: ' wrapping
SettleUnwrapped(err, data) == IF Truthy(err) THEN Rejected(err) ELSE Resolved(data)

\* the (err, data) callback shared by the four transport wrappers
Settle(err, data) ==
  IF Truthy(err)
    THEN Rejected(Str(<<"An error occurred: ">> \o JSToString(err)))
    ELSE Resolved(data)

\* the synchronous part of deleteMessage's promise executor: reading
\* message.ReceiptHandle throws inside the executor (the promise rejects with
\* the TypeError), a falsy handle rejects, otherwise the transport is called
DeleteStep(message) ==
  IF ~CanGet(message)
    THEN [kind |-> "reject", value |-> TypeErrorOf("ReceiptHandle")]
    ELSE IF ~Truthy(Get(message, "ReceiptHandle"))
      THEN [kind |-> "reject", value |-> ReceiptError]
      ELSE [kind |-> "call", params |-> [ReceiptHandle |-> Get(message, "ReceiptHandle")]]

\* DequeueReturn that returns the delete acknowledgment
DequeueReturnAck(data, deleted) == deleted

\* dequeue's `return data`
DequeueReturn(data, deleted) == data

CanCall == svc = "ok" /\ qResult.state # "pending"

Issue(op, params) ==
  /\ sqsCalls' = <<[op |-> op, params |-> params]>>
  /\ sqsResults' = <<>>
  /\ sqsPending' = TRUE
  /\ qResult' = Pending

SendMessage(message) ==
  /\ CanCall
  /\ qCall' = [name |-> "sendMessage", arg |-> message]
  /\ Issue("sendMessage", SendParams(message))
  /\ deleteArgs' = <<>>
  /\ UNCHANGED <<svc, ctorArgs, ctorError, url, poll, sqsOptions>>
  /\ UNCHANGED <<storageVars, pollVars>>

ReceiveMessage(maxNumberOfMessages) ==
  /\ CanCall
  /\ qCall' = [name |-> "receiveMessage", arg |-> maxNumberOfMessages]
  /\ Issue("receiveMessage", ReceiveParams(DefaultTo(maxNumberOfMessages, Num(1))))
  /\ deleteArgs' = <<>>
  /\ UNCHANGED <<svc, ctorArgs, ctorError, url, poll, sqsOptions>>
  /\ UNCHANGED <<storageVars, pollVars>>

DeleteMessage(message) ==
  /\ CanCall
  /\ qCall' = [name |-> "deleteMessage", arg |-> message]
  /\ deleteArgs' = <<message>>
  /\ LET step == DeleteStep(message)
     IN IF step.kind = "call"
          THEN Issue("deleteMessage", step.params)
          ELSE /\ qResult' = Rejected(step.value)
               /\ sqsCalls' = <<>>
               /\ sqsResults' = <<>>
               /\ sqsPending' = FALSE
  /\ UNCHANGED <<svc, ctorArgs, ctorError, url, poll, sqsOptions>>
  /\ UNCHANGED <<storageVars, pollVars>>

PurgeQueue ==
  /\ CanCall
  /\ qCall' = [name |-> "purgeQueue", arg |-> Undefined]
  /\ Issue("purgeQueue", Undefined)
  /\ deleteArgs' = <<>>
  /\ UNCHANGED <<svc, ctorArgs, ctorError, url, poll, sqsOptions>>
  /\ UNCHANGED <<storageVars, pollVars>>

\* dequeue up to its first await: this.receiveMessage()
Dequeue ==
  /\ CanCall
  /\ qCall' = [name |-> "dequeue", arg |-> Undefined]
  /\ Issue("receiveMessage", ReceiveParams(DefaultTo(Undefined, Num(1))))
  /\ deleteArgs' = <<>>
  /\ UNCHANGED <<svc, ctorArgs, ctorError, url, poll, sqsOptions>>
  /\ UNCHANGED <<storageVars, pollVars>>

\* a transport callback of the invocation, with the continuations it runs
SqsCallback(err, data) ==
  /\ sqsPending
  /\ sqsResults' = Append(sqsResults, [err |-> err, data |-> data])
  /\ LET p == Settle(err, data)
     IN IF qCall.name # "dequeue"
          THEN /\ qResult' = p
               /\ sqsPending' = FALSE
               /\ UNCHANGED <<sqsCalls, deleteArgs>>
          ELSE IF Len(sqsCalls) = 1
            THEN \* `data = await this.receiveMessage()`, then this.deleteMessage(data)
                 IF p.state = "rejected"
                   THEN /\ qResult' = p
                        /\ sqsPending' = FALSE
                        /\ UNCHANGED <<sqsCalls, deleteArgs>>
                   ELSE LET step == DeleteStep(p.value)
                        IN /\ deleteArgs' = Append(deleteArgs, p.value)
                           /\ IF step.kind = "call"
                                THEN /\ sqsCalls' = Append(sqsCalls,
                                          [op |-> "deleteMessage", params |-> step.params])
                                     /\ UNCHANGED <<qResult, sqsPending>>
                                ELSE /\ qResult' = Rejected(step.value)
                                     /\ sqsPending' = FALSE
                                     /\ UNCHANGED sqsCalls
            ELSE \* `await this.deleteMessage(data)`, then `return data`
                 /\ qResult' = IF p.state = "rejected" THEN p
                               ELSE Resolved(DequeueReturn(sqsResults[1].data, p.value))
                 /\ sqsPending' = FALSE
                 /\ UNCHANGED <<sqsCalls, deleteArgs>>
  /\ UNCHANGED <<svc, ctorArgs, ctorError, url, poll, sqsOptions, qCall>>
  /\ UNCHANGED <<storageVars, pollVars>>

QueueInit ==
  /\ svc = "none"
  /\ ctorArgs = <<>>
  /\ ctorError = Undefined
  /\ url = Undefined
  /\ poll = Undefined
  /\ sqsOptions = Undefined
  /\ qCall = NoCall
  /\ qResult = NoPromise
  /\ deleteArgs = <<>>
  /\ sqsCalls = <<>>
  /\ sqsResults = <<>>
  /\ sqsPending = FALSE

QueueNext ==
  \/ \E a \in AppNames, s \in Slices, e \in Environments, q \in QueueNames :
       Constructor(a, s, e, q)
  \/ \E m \in Messages : SendMessage(m)
  \/ \E n \in MaxCounts : ReceiveMessage(n)
  \/ \E m \in Deletables : DeleteMessage(m)
  \/ PurgeQueue
  \/ Dequeue
  \/ \E e \in SqsErrs, d \in SqsData : SqsCallback(e, d)

(***************************************************************************)
(* QueueService polling                                                    *)
(***************************************************************************)
MinPollSeconds == 20

PollBatch == 10

\* arguments a caller may pass to startPolling
Intervals == {-5, 5, 30}

\* what a long poll may answer: messages, none (the field is absent),
\* an empty list, or a failure
PollAnswers ==
  {<<Null, Obj([Messages |-> Arr(<<Obj([ReceiptHandle |-> Str(<<"AQEB-1">>)])>>)])>>,
   <<Null, Obj([RequestId |-> Str(<<"r-1">>)])>>,
   <<Null, Obj([Messages |-> Arr(<<>>)])>>,
   <<Str(<<"ERR">>), Obj([RequestId |-> Str(<<"r-1">>)])>>}

\* TimerHandle that keeps naming the first timer once one is stored
TimerHandleFirst(id) == [t |-> "timer", id |-> 1]

\* the handle setInterval returns, as stored in this.poll
TimerHandle(id) == [t |-> "timer", id |-> id]

MaxOf(a, b) == IF a >= b THEN a ELSE b

\* PollSeconds without the floor
PollSecondsUnclamped(intervalSeconds) == intervalSeconds

\* const seconds = Math.max(intervalSeconds, 20)
PollSeconds(intervalSeconds) == MaxOf(intervalSeconds, MinPollSeconds)

\* const interval = seconds * 1000
PollInterval(intervalSeconds) == PollSeconds(intervalSeconds) * 1000

\* ClearInterval that leaves the timer running
ClearIntervalNothing(handle) == timers

\* clearInterval(handle): stops the timer the handle names; any other value
\* (null, an already cleared handle) is ignored
ClearInterval(handle) ==
  IF handle.t = "timer"
    THEN [timers EXCEPT ![handle.id].active = FALSE]
    ELSE timers

\* the .then / .catch chain of a tick, given the settled receive promise:
\* the events it emits, in order
TickEvents(p) ==
  IF p.state = "rejected"
    THEN <<[name |-> "error", payload |-> p.value]>>
    ELSE IF ~CanGet(p.value)
      THEN <<[name |-> "error", payload |-> TypeErrorOf("Messages")]>>
      ELSE IF Truthy(Get(p.value, "Messages"))
        THEN <<[name |-> "message", payload |-> p.value]>>
        ELSE <<>>

Due(timer) == timer.elapsed * 1000 >= timer.interval

StartPolling(intervalSeconds) ==
  /\ svc = "ok"
  /\ Len(timers) < MaxStarts
  /\ timers' = Append(timers,
       [arg |-> intervalSeconds,
        interval |-> PollInterval(intervalSeconds),
        elapsed |-> 0,
        active |-> TRUE])
  /\ poll' = TimerHandle(Len(timers) + 1)
  /\ last' = [op |-> "startPolling", arg |-> intervalSeconds,
              emitter |-> Len(timers) + 1]
  /\ lastApi' = "startPolling"
  /\ UNCHANGED inflight
  /\ UNCHANGED <<svc, ctorArgs, ctorError, url, sqsOptions, qCall, qResult,
                 deleteArgs, sqsCalls, sqsResults, sqsPending>>
  /\ UNCHANGED storageVars

StopPolling ==
  /\ svc = "ok"
  /\ timers' = ClearInterval(poll)
  /\ inflight' = [k \in 1..Len(inflight) |-> [inflight[k] EXCEPT !.stopped = TRUE]]
  /\ last' = [op |-> "stopPolling"]
  /\ lastApi' = "stopPolling"
  /\ UNCHANGED queueVars
  /\ UNCHANGED storageVars

\* the setInterval callback of timer id: this.receiveMessage(10)
Tick(id) ==
  /\ timers[id].active
  /\ Due(timers[id])
  /\ Len(inflight) < MaxInFlight
  /\ timers' = [timers EXCEPT ![id].elapsed = 0]
  /\ inflight' = Append(inflight,
       [timer |-> id, params |-> ReceiveParams(Num(PollBatch)), stopped |-> FALSE])
  /\ last' = [op |-> "tick", timer |-> id, waited |-> timers[id].elapsed,
              params |-> ReceiveParams(Num(PollBatch))]
  /\ UNCHANGED lastApi
  /\ UNCHANGED queueVars
  /\ UNCHANGED storageVars

\* the transport callback of the k-th receive in flight, then its .then / .catch
PollCallback(k, err, data) ==
  /\ k \in 1..Len(inflight)
  /\ inflight' = [j \in 1..(Len(inflight) - 1) |->
                    IF j < k THEN inflight[j] ELSE inflight[j + 1]]
  /\ LET emitted == TickEvents(Settle(err, data))
     IN last' = [op |-> "callback", timer |-> inflight[k].timer,
                 stopped |-> inflight[k].stopped, err |-> err, data |-> data,
                 emitted |-> [i \in 1..Len(emitted) |->
                    [emitter |-> inflight[k].timer, name |-> emitted[i].name,
                     payload |-> emitted[i].payload]]]
  /\ UNCHANGED <<timers, lastApi>>
  /\ UNCHANGED queueVars
  /\ UNCHANGED storageVars

\* time passes while some timer is waiting for its interval to elapse
Advance ==
  /\ \E id \in 1..Len(timers) : timers[id].active /\ ~Due(timers[id])
  /\ timers' = [id \in 1..Len(timers) |->
       IF timers[id].active /\ ~Due(timers[id])
         THEN [timers[id] EXCEPT !.elapsed = @ + TimeStep]
         ELSE timers[id]]
  /\ last' = [op |-> "advance"]
  /\ UNCHANGED <<inflight, lastApi>>
  /\ UNCHANGED queueVars
  /\ UNCHANGED storageVars

\* a service as the test suite constructs it
PollInit ==
  /\ svc = "ok"
  /\ ctorArgs = <<Str(<<"appName">>), Str(<<"slice">>), Str(<<"kaos">>), Str(<<"name">>)>>
  /\ ctorError = Undefined
  /\ url = QueueUrl(Str(<<"appName">>), Str(<<"slice">>), Str(<<"kaos">>), Str(<<"name">>))
  /\ poll = Null
  /\ sqsOptions = SqsOptions(url)
  /\ qCall = NoCall
  /\ qResult = NoPromise
  /\ deleteArgs = <<>>
  /\ sqsCalls = <<>>
  /\ sqsResults = <<>>
  /\ sqsPending = FALSE

PollNext ==
  \/ \E i \in Intervals : StartPolling(i)
  \/ StopPolling
  \/ \E id \in 1..Len(timers) : Tick(id)
  \/ \E k \in 1..Len(inflight), a \in PollAnswers : PollCallback(k, a[1], a[2])
  \/ Advance

(***************************************************************************)
(* Specifications                                                          *)
(***************************************************************************)
PollIdle ==
  /\ timers = <<>>
  /\ inflight = <<>>
  /\ last = [op |-> "none"]
  /\ lastApi = "none"

\* QueueService polling: a constructed service and its timers
InitPoll == PollInit /\ StorageInit /\ PollIdle

SpecPoll == InitPoll /\ [][PollNext]_vars

\* StorageService on its own
InitStorage == StorageInit /\ QueueInit /\ PollIdle

SpecStorage == InitStorage /\ [][StorageNext]_vars

\* QueueService: construction, then the request wrappers one call at a time
InitQueue == QueueInit /\ StorageInit /\ PollIdle

SpecQueue == InitQueue /\ [][QueueNext]_vars

(***************************************************************************)
(* Properties of StorageService                                            *)
(***************************************************************************)
ProbeFound(e) == e = Null
ProbeNotFound(e) == e = S3Error("NotFound")
ProbeOtherError(e) == ~ProbeFound(e) /\ ~ProbeNotFound(e)

\* prefix + the i-th generated suffix
ExpectedKey(i) == Str(sCall.prefix.v \o UuidV1(i).v)

\* C1: getUniqueKey(prefix) whose probe reports 'found' k times and then
\* 'not found' performs exactly k+1 probes, the i-th for prefix + the i-th
\* freshly generated suffix, and resolves with prefix + the (k+1)-th suffix;
\* a probe failing with any other error rejects with that error unchanged
\* and no further probe is made.
C1_UniqueKeyProbes ==
  /\ Len(headCalls) = uuidCalls
  /\ \A i \in 1..Len(headCalls) : headCalls[i] = [Key |-> ExpectedKey(i)]
  /\ \A i, j \in 1..Len(headCalls) : i # j => headCalls[i] # headCalls[j]
  /\ \A i \in 1..Len(headResults) :
       i < Len(headResults) => ProbeFound(headResults[i])
  /\ sCall.name = "getUniqueKey" =>
       LET n == Len(headResults)
       IN /\ sResult.state = "pending" =>
               /\ \A i \in 1..n : ProbeFound(headResults[i])
               /\ headPending /\ Len(headCalls) = n + 1
          /\ (n > 0 /\ ProbeNotFound(headResults[n])) =>
               /\ sResult = Resolved(ExpectedKey(n))
               /\ Len(headCalls) = n /\ ~headPending
          /\ (n > 0 /\ ProbeOtherError(headResults[n])) =>
               /\ sResult = Rejected(headResults[n])
               /\ Len(headCalls) = n /\ ~headPending
          /\ sResult.state = "resolved" => ProbeNotFound(headResults[n])
          /\ sResult.state = "rejected" => ProbeOtherError(headResults[n])

\* two 'found' probes, then 'not found': three probes, third key returned
C1_Witness ==
  /\ sCall.name = "getUniqueKey"
  /\ headResults = <<Null, Null, S3Error("NotFound")>>
  /\ Len(headCalls) = 3
  /\ sResult = Resolved(ExpectedKey(3))

KeyGenerationFailed ==
  \E i \in 1..Len(headResults) : ProbeOtherError(headResults[i])

\* C5: putAttachment resolves with exactly the key passed to the successful
\* write call, which is the key getUniqueKey returned; a failed write
\* rejects with that same failure and returns no key; a failed key
\* generation issues no write; at most one write is issued per invocation.
C5_PutAttachmentKey ==
  sCall.name = "putAttachment" =>
    /\ Len(putCalls) <= 1
    /\ KeyGenerationFailed => putCalls = <<>> /\ ~putPending
    /\ \A i \in 1..Len(putCalls) :
         putCalls[i].Key = ExpectedKey(Len(headResults))
    /\ \A i \in 1..Len(putResults) :
         IF Truthy(putResults[i])
           THEN sResult = Rejected(putResults[i])
           ELSE sResult = Resolved(putCalls[i].Key)
    /\ sResult.state = "resolved" =>
         /\ Len(putResults) = 1 /\ ~Truthy(putResults[1])
         /\ sResult.value = putCalls[1].Key
    /\ (sResult.state = "rejected" /\ putResults = <<>>) =>
         /\ KeyGenerationFailed
         /\ sResult.value = headResults[Len(headResults)]

\* a collision, then a free key, then a successful write
C5_Witness ==
  /\ sCall.name = "putAttachment"
  /\ Len(headCalls) = 2
  /\ putResults = <<Null>>
  /\ sResult = Resolved(putCalls[1].Key)

(***************************************************************************)
(* Properties of QueueService: construction and the request wrappers       *)
(***************************************************************************)
Missing(v) == v \in {Undefined, Null, Str(<<>>)}

\* the message carries no receipt token: there is no message to read it
\* from, or the token is absent, null or empty
NoReceiptToken(message) ==
  ~CanGet(message) \/ Missing(Get(message, "ReceiptHandle"))

TransportFailed(err) == err \notin {Null, False}

Wrapped(err) == Str(<<"An error occurred: ">> \o JSToString(err))

\* C3: deleteMessage(message) rejects with the local validation error
\* whenever message carries no receipt token, without invoking the
\* transport's delete; with a token exactly one delete request carrying only
\* that token is issued.
C3_DeleteValidation ==
  qCall.name = "deleteMessage" =>
    IF NoReceiptToken(qCall.arg)
      THEN qResult = Rejected(ReceiptError) /\ sqsCalls = <<>>
      ELSE sqsCalls = <<[op |-> "deleteMessage",
                         params |-> [ReceiptHandle |-> Get(qCall.arg, "ReceiptHandle")]]>>

\* C4: dequeue issues receive(1) first and the delete only after receive
\* resolved; deleteMessage is given exactly the object receive returned and
\* dequeue resolves with that object only when both steps succeed; a failed
\* receive issues no delete; a received object without a receipt token
\* rejects with the local validation error and no transport delete.
C4_Dequeue ==
  qCall.name = "dequeue" =>
    /\ Len(sqsCalls) \in {1, 2}
    /\ sqsCalls[1] = [op |-> "receiveMessage",
                      params |-> [MaxNumberOfMessages |-> Num(1),
                                  AttributeNames |-> <<"All">>,
                                  WaitTimeSeconds |-> 10]]
    /\ sqsResults = <<>> => Len(sqsCalls) = 1 /\ deleteArgs = <<>>
    /\ sqsResults # <<>> =>
         LET received == sqsResults[1]
         IN IF TransportFailed(received.err)
              THEN /\ Len(sqsCalls) = 1 /\ deleteArgs = <<>>
                   /\ qResult = Rejected(Wrapped(received.err))
              ELSE /\ deleteArgs = <<received.data>>
                   /\ IF NoReceiptToken(received.data)
                        THEN Len(sqsCalls) = 1 /\ qResult = Rejected(ReceiptError)
                        ELSE /\ Len(sqsCalls) = 2
                             /\ sqsCalls[2] = [op |-> "deleteMessage",
                                  params |-> [ReceiptHandle |->
                                     Get(received.data, "ReceiptHandle")]]
                             /\ Len(sqsResults) = 1 => qResult = Pending
                             /\ Len(sqsResults) = 2 =>
                                  qResult = IF TransportFailed(sqsResults[2].err)
                                              THEN Rejected(Wrapped(sqsResults[2].err))
                                              ELSE Resolved(received.data)
    /\ qResult.state = "resolved" =>
         /\ Len(sqsResults) = 2
         /\ \A i \in 1..2 : ~TransportFailed(sqsResults[i].err)

\* receive returned a deletable message, the delete was acknowledged with
\* something else, and dequeue resolved with the received message
C4_Witness ==
  /\ qCall.name = "dequeue"
  /\ Len(sqsResults) = 2
  /\ sqsResults[1].data = Obj([ReceiptHandle |-> Num(123)])
  /\ sqsResults[2].data = Str(<<"some_data">>)
  /\ qResult = Resolved(Obj([ReceiptHandle |-> Num(123)]))

\* C6: construction fails with the configuration error whenever at least one
\* of appName, slice, environment, queueName is empty, null or undefined,
\* before the endpoint is derived or the transport client is created, and
\* succeeds whenever all four are non-empty.
C6_Construction ==
  svc # "none" =>
    IF \E i \in 1..4 : Missing(ctorArgs[i])
      THEN /\ svc = "threw" /\ ctorError = MandatoryError
           /\ url = Undefined /\ sqsOptions = Undefined /\ poll = Undefined
      ELSE /\ svc = "ok" /\ ctorError = Undefined
           /\ url # Undefined /\ sqsOptions # Undefined

\* the second construction of the test suite: only queueName is null
C6_Witness ==
  /\ svc = "threw"
  /\ ctorArgs = <<Str(<<"appName">>), Str(<<"slice">>), Str(<<"environment">>), Null>>

\* the production tag maps to the production account, every other value to
\* the staging account
AccountId(environment) ==
  IF environment = Str(<<"prod">>) THEN <<"966972755541">> ELSE <<"384553929753">>

\* C7: for all non-empty arguments the endpoint derived at construction is
\* host + '/' + account-id(environment) + '/' + appName-slice-queueName,
\* and no later operation changes it.
C7_Endpoint ==
  svc = "ok" =>
    /\ url = Str(<<"https://sqs.ap-southeast-2.amazonaws.com/">>
                 \o AccountId(ctorArgs[3]) \o <<"/">>
                 \o ctorArgs[1].v \o <<"-">> \o ctorArgs[2].v \o <<"-">>
                 \o ctorArgs[4].v)
    /\ sqsOptions.params.QueueUrl = url

\* C8: send, receive, deleteMessage (with a receipt token) and purge each
\* issue exactly one transport call per invocation, resolve with the
\* transport's data unchanged on success, and on failure reject with
\* 'An error occurred: ' followed by the stringified error, without a retry.
C8_TransportWrappers ==
  (\/ qCall.name \in {"sendMessage", "receiveMessage", "purgeQueue"}
   \/ qCall.name = "deleteMessage" /\ ~NoReceiptToken(qCall.arg)) =>
    /\ Len(sqsCalls) = 1
    /\ sqsCalls[1].op = qCall.name
    /\ Len(sqsResults) <= 1
    /\ sqsResults = <<>> => qResult = Pending /\ sqsPending
    /\ sqsResults # <<>> =>
         /\ ~sqsPending
         /\ qResult = IF TransportFailed(sqsResults[1].err)
                        THEN Rejected(Wrapped(sqsResults[1].err))
                        ELSE Resolved(sqsResults[1].data)

\* the transport failed a send with 'ERR' while also passing data
C8_Witness ==
  /\ qCall.name = "sendMessage"
  /\ sqsResults = <<[err |-> Str(<<"ERR">>), data |-> Str(<<"some_data">>)]>>
  /\ qResult = Rejected(Str(<<"An error occurred: ", "ERR">>))

(***************************************************************************)
(* Properties of QueueService polling                                      *)
(***************************************************************************)
NonEmptyMessages(data) ==
  /\ Get(data, "Messages").t = "array"
  /\ Get(data, "Messages").elems # <<>>

Event(name, payload) ==
  [emitter |-> last.timer, name |-> name, payload |-> payload]

\* C2: every poll tick has exactly one outcome, set by its receive(10): a
\* response with a non-empty messages field fires exactly one 'message'
\* carrying the response and no 'error'; an empty or absent messages field
\* fires nothing; a failed receive fires exactly one 'error' carrying the
\* failure and no 'message'.
C2_TickOutcome ==
  last.op = "callback" =>
    last.emitted =
      IF TransportFailed(last.err) THEN <<Event("error", Wrapped(last.err))>>
      ELSE IF NonEmptyMessages(last.data) THEN <<Event("message", last.data)>>
      ELSE <<>>

ClaimedSeconds(intervalSeconds) ==
  IF intervalSeconds < 20 THEN 20 ELSE intervalSeconds

\* C9: startPolling(intervalSeconds) installs its timer with a period of
\* max(intervalSeconds, 20) seconds (5 gives 20 s, 30 gives 30 s); no receive
\* is issued before the first period has elapsed, nor a later one before
\* another period has; each tick requests up to 10 messages.
C9_PollPeriod ==
  /\ \A id \in 1..Len(timers) :
       /\ timers[id].interval = ClaimedSeconds(timers[id].arg) * 1000
       /\ timers[id].arg = 5 => timers[id].interval = 20000
       /\ timers[id].arg = 30 => timers[id].interval = 30000
  /\ last.op = "tick" =>
       /\ last.waited >= ClaimedSeconds(timers[last.timer].arg)
       /\ last.params.MaxNumberOfMessages = Num(10)
  /\ \A k \in 1..Len(inflight) :
       inflight[k].params.MaxNumberOfMessages = Num(10)

\* startPolling(5), and a receive issued once 20 seconds had elapsed
C9_Witness ==
  /\ last.op = "tick"
  /\ timers[last.timer].arg = 5
  /\ last.waited = 20

\* once stopPolling was the latest call, the held timer issues no receive
StopSuppressesTicks ==
  (lastApi = "stopPolling" /\ poll # Null) =>
    ~(last'.op = "tick" /\ last'.timer = poll.id)

\* the receives in flight, as the program sees them
Requests(calls) == [k \in 1..Len(calls) |-> [timer |-> calls[k].timer,
                                             params |-> calls[k].params]]

\* stopPolling with no timer active changes nothing
IdleStopChangesNothing ==
  (last'.op = "stopPolling" /\ (poll = Null \/ lastApi = "stopPolling")) =>
    /\ UNCHANGED <<queueVars, timers>>
    /\ Requests(inflight') = Requests(inflight)

\* a receive in flight at stopPolling can still complete, and when it does
\* its notification is raised
InFlightCompletes ==
  /\ \A k \in 1..Len(inflight) :
       inflight[k].stopped =>
         ENABLED (\E a \in PollAnswers : PollCallback(k, a[1], a[2]))
  /\ (last.op = "callback" /\ last.stopped) =>
       /\ TransportFailed(last.err) =>
            last.emitted = <<Event("error", Wrapped(last.err))>>
       /\ (~TransportFailed(last.err) /\ NonEmptyMessages(last.data)) =>
            last.emitted = <<Event("message", last.data)>>

\* C10: stopPolling suppresses only future ticks: after it the held timer
\* never issues another receive, a receive already in flight still completes
\* and raises its 'message' or 'error' notification, and stopPolling with no
\* timer active (before any startPolling, or twice in a row) changes nothing.
C10_StopPolling ==
  /\ [][StopSuppressesTicks /\ IdleStopChangesNothing]_vars
  /\ []InFlightCompletes

\* a single startPolling, a stopPolling while its receive was in flight, and
\* the 'message' that receive raised afterwards
C10_Witness ==
  /\ Len(timers) = 1
  /\ lastApi = "stopPolling"
  /\ last.op = "callback"
  /\ last.stopped
  /\ last.emitted = <<Event("message", last.data)>>

\* stopPolling cancels the timer of the latest startPolling and leaves every
\* other timer as it was
StopCancelsLatestOnly ==
  last'.op = "stopPolling" =>
    /\ Len(timers') = Len(timers)
    /\ \A id \in 1..Len(timers) :
         timers'[id] = IF id = Len(timers)
                         THEN [timers[id] EXCEPT !.active = FALSE]
                         ELSE timers[id]

\* a timer still running when a later startPolling replaced its handle is
\* never cancelled by any step
LeakedStaysActive ==
  \A id \in 1..(Len(timers) - 1) : timers[id].active => timers'[id].active

\* no handle to an earlier timer remains: this.poll names the latest one
OnlyLatestHandleHeld ==
  Len(timers) > 0 => poll = [t |-> "timer", id |-> Len(timers)]

\* a leaked timer keeps firing: when its period has elapsed its receive can
\* be issued, whatever stopPolling calls were made, and what that receive
\* raises goes to the emitter of its own startPolling
LeakedKeepsFiring ==
  /\ \A id \in 1..(Len(timers) - 1) :
       (timers[id].active /\ Due(timers[id]) /\ Len(inflight) < MaxInFlight) =>
         ENABLED Tick(id)
  /\ last.op = "startPolling" => last.emitter = Len(timers)
  /\ last.op = "callback" =>
       \A i \in 1..Len(last.emitted) : last.emitted[i].emitter = last.timer

\* C11: stopPolling cancels exactly the most recently stored timer handle and
\* no other: after two startPolling calls with no stopPolling in between, the
\* first timer keeps firing and issuing receives, emitting on its own
\* emitter, after every later stopPolling, since this.poll no longer names
\* it; several timers can be active on one instance.
C11_LeakedTimer ==
  /\ [][StopCancelsLatestOnly /\ LeakedStaysActive]_vars
  /\ [](OnlyLatestHandleHeld /\ LeakedKeepsFiring)

\* two startPolling calls in a row, then stopPolling: the second timer is
\* cancelled and the first has just issued another receive
C11_Witness ==
  /\ Len(timers) = 2
  /\ lastApi = "stopPolling"
  /\ timers[1].active
  /\ ~timers[2].active
  /\ last.op = "tick"
  /\ last.timer = 1

====
